---- MODULE Spec2Model ----
(***************************************************************************)
(* A model of the volume repository: the MCX scraper and its long-to-wide  *)
(* transform (src/mcx_scraper.py) and the value normalizer of              *)
(* src/bse_premium.py.                                                     *)
(*                                                                         *)
(* Text is modelled three ways, by the conversion the code applies to it:  *)
(*   - a numeric cell is a sequence of one-character strings, parsed by    *)
(*     ParseFloat the way Python's float() parses it;                      *)
(*   - a date cell is the sequence of its space-separated tokens, parsed   *)
(*     by Strptime the way the format '%d %b %Y' is matched;               *)
(*   - a name (instrument, commodity, segment, header) is a string, put    *)
(*     in upper case by Upper.                                             *)
(* A number is an exact decimal [k |-> "num", m |-> mantissa, d |-> number *)
(* of decimals], or the float NaN or an infinity.  Binary rounding of      *)
(* float64 is not modelled.                                                *)
(***************************************************************************)
EXTENDS Integers, Sequences, FiniteSets, TLC

VARIABLES
    pc,             \* position of the running program
    exc,            \* the exception that left the program, or "none"
    text_value,     \* clean_numeric_value: its argument
    ret,            \* clean_numeric_value: its return value
    site,           \* the rows the MCX result table holds, over all its pages
    page,           \* scrape_mcx_data: the page the browser shows
    all_rows_data,  \* scrape_mcx_data: rows collected so far
    raw_df,         \* __main__: what scrape_mcx_data returned
    given,          \* the table as it was when transform was first called
    wide_df,        \* __main__: what transform_data_to_wide_format returned
    calls           \* number of calls of transform_data_to_wide_format

vars == <<pc, exc, text_value, ret, site, page, all_rows_data, raw_df, given,
          wide_df, calls>>

(***************************************************************************)
(* Bounds of the model.                                                    *)
(***************************************************************************)
MaxLen == 3        \* longest enumerated text handed to clean_numeric_value
MaxRows == 3       \* most rows the MCX result table holds
PageSize == 2      \* rows the MCX result table shows on one page
MaxCalls == 2      \* most calls of transform on one table

(***************************************************************************)
(* Small helpers.                                                          *)
(***************************************************************************)
Max(a, b) == IF a >= b THEN a ELSE b

RECURSIVE Pow10(_)
Pow10(n) == IF n = 0 THEN 1 ELSE 10 * Pow10(n - 1)

Range(s) == {s[i] : i \in DOMAIN s}

RECURSIVE SeqsUpTo(_, _)
SeqsUpTo(S, n) ==
    IF n = 0 THEN {<<>>}
    ELSE LET shorter == SeqsUpTo(S, n - 1)
         IN  shorter \cup {Append(s, x) : s \in {t \in shorter : Len(t) = n - 1}, x \in S}

RECURSIVE SelectSeq2(_, _)
\* s without the elements equal to c: str.replace(c, '') on a character sequence
SelectSeq2(s, c) ==
    IF s = <<>> THEN <<>>
    ELSE IF Head(s) = c THEN SelectSeq2(Tail(s), c)
    ELSE <<Head(s)>> \o SelectSeq2(Tail(s), c)

(***************************************************************************)
(* Numbers.                                                                *)
(***************************************************************************)
RECURSIVE DecNorm(_, _)
DecNorm(m, d) ==
    IF d > 0 /\ m % 10 = 0 THEN DecNorm(m \div 10, d - 1)
    ELSE [k |-> "num", m |-> m, d |-> d]

Zero == DecNorm(0, 0)
NaN == [k |-> "nan", m |-> 0, d |-> 0]
Inf(sign) == [k |-> "inf", m |-> sign, d |-> 0]

IsFinite(x) == x.k = "num"

\* float addition of two numbers (exact on decimals; NaN and infinities as IEEE)
FAdd(a, b) ==
    IF a.k = "nan" \/ b.k = "nan" THEN NaN
    ELSE IF a.k = "inf" /\ b.k = "inf" THEN (IF a.m = b.m THEN a ELSE NaN)
    ELSE IF a.k = "inf" THEN a
    ELSE IF b.k = "inf" THEN b
    ELSE LET d == Max(a.d, b.d)
         IN  DecNorm(a.m * Pow10(d - a.d) + b.m * Pow10(d - b.d), d)

\* x / 100
FDiv100(x) == IF x.k = "num" THEN DecNorm(x.m, x.d + 2) ELSE x

(***************************************************************************)
(* Python's float(str) and str.strip().                                    *)
(***************************************************************************)
DigitChars == <<"0", "1", "2", "3", "4", "5", "6", "7", "8", "9">>

IsDigit(c) == c \in Range(DigitChars)
DigitVal(c) == (CHOOSE i \in DOMAIN DigitChars : DigitChars[i] = c) - 1

RECURSIVE DigitsVal(_)
DigitsVal(s) ==
    IF s = <<>> THEN 0 ELSE 10 * DigitsVal(SubSeq(s, 1, Len(s) - 1)) + DigitVal(s[Len(s)])

RECURSIVE Strip(_)
Strip(s) ==
    IF s = <<>> THEN s
    ELSE IF Head(s) = " " THEN Strip(Tail(s))
    ELSE IF s[Len(s)] = " " THEN Strip(SubSeq(s, 1, Len(s) - 1))
    ELSE s

\* The unsigned part of a float literal: "inf", "infinity", "nan", or digits with
\* at most one point and at least one digit.  (Exponents and underscores are not
\* in the texts the model enumerates.)
ParseUnsigned(b, sign) ==
    IF b \in {<<"i", "n", "f">>, <<"i", "n", "f", "i", "n", "i", "t", "y">>}
    THEN [ok |-> TRUE, v |-> Inf(sign)]
    ELSE IF b = <<"n", "a", "n">> THEN [ok |-> TRUE, v |-> NaN]
    ELSE LET points == {i \in DOMAIN b : b[i] = "."}
             digits == SelectSeq2(b, ".")
         IN  IF /\ Cardinality(points) <= 1
                /\ digits # <<>>
                /\ \A i \in DOMAIN digits : IsDigit(digits[i])
             THEN LET p == IF points = {} THEN Len(b) ELSE CHOOSE i \in points : TRUE
                  IN  [ok |-> TRUE, v |-> DecNorm(sign * DigitsVal(digits), Len(b) - p)]
             ELSE [ok |-> FALSE, v |-> Zero]

\* float(s): ok is FALSE where float raises ValueError
ParseFloat(s) ==
    LET t == Strip(s)
    IN  IF t = <<>> THEN [ok |-> FALSE, v |-> Zero]
        ELSE IF Head(t) = "-" THEN ParseUnsigned(Tail(t), -1)
        ELSE IF Head(t) = "+" THEN ParseUnsigned(Tail(t), 1)
        ELSE ParseUnsigned(t, 1)

(***************************************************************************)
(* bse_premium.clean_numeric_value.  Its argument is [str |-> whether it   *)
(* is a str, chars |-> its characters].                                    *)
(***************************************************************************)
clean_numeric_value(tv) ==
    IF tv.str /\ Strip(tv.chars) \notin {<<"-">>, <<>>}
    THEN LET f == ParseFloat(SelectSeq2(tv.chars, ","))
         IN  IF f.ok THEN f.v ELSE Zero
    ELSE Zero

Alphabet == {"1", "5", ",", ".", "-", " ", "a", "n", "i", "f"}

\* the texts of the spec's scenarios, beside the enumerated ones
ScenarioTexts ==
    { <<"1", ",", "2", "3", "4", ".", "5", "0">>, <<"a", "b", "c">>,
      <<" ", "-", " ", " ">>, <<"-", "i", "n", "f">>, <<" ", "1", ".", "5", " ">> }

CleanInputs ==
    {[str |-> TRUE, chars |-> c] : c \in SeqsUpTo(Alphabet, MaxLen) \cup ScenarioTexts}
        \cup {[str |-> FALSE, chars |-> <<>>]}

NoText == [str |-> FALSE, chars |-> <<>>]

(***************************************************************************)
(* Dates.  A date text is [sep |-> the separator, toks |-> its tokens]; a  *)
(* Timestamp is [nat |-> whether it is NaT, y, mo, d].                     *)
(***************************************************************************)
Years == 2024 .. 2026
MonthAbbr == <<"Jan", "Feb", "Mar", "Apr", "May", "Jun",
               "Jul", "Aug", "Sep", "Oct", "Nov", "Dec">>

Pad2(n) == DigitChars[(n \div 10) + 1] \o DigitChars[(n % 10) + 1]
Str4(y) == Pad2(y \div 100) \o Pad2(y % 100)

DateText(sep, toks) == [sep |-> sep, toks |-> toks]
Timestamp(y, mo, d) == [nat |-> FALSE, y |-> y, mo |-> mo, d |-> d]
NaT == [nat |-> TRUE, y |-> 0, mo |-> 0, d |-> 0]

IsLeap(y) == (y % 4 = 0 /\ y % 100 # 0) \/ y % 400 = 0
DaysIn(mo, y) ==
    IF mo = 2 THEN (IF IsLeap(y) THEN 29 ELSE 28)
    ELSE IF mo \in {4, 6, 9, 11} THEN 30 ELSE 31

\* %d: one or two digits
DayOf(tok) == {n \in 1 .. 31 : tok = Pad2(n) \/ (n < 10 /\ tok = DigitChars[n + 1])}
\* %b: the abbreviated month name
MonthOf(tok) == {n \in 1 .. 12 : tok = MonthAbbr[n]}
\* %m: the month as two digits
MonthNumOf(tok) == {n \in 1 .. 12 : tok = Pad2(n)}
\* %Y: the year with century
YearOf(tok) == {y \in Years : tok = Str4(y)}

\* pd.to_datetime(text, format='%d<sep>%b<sep>%Y'): ok is FALSE where it raises
\* ValueError
StrptimeDBY(text, sep) ==
    IF /\ text.sep = sep
       /\ Len(text.toks) = 3
       /\ DayOf(text.toks[1]) # {}
       /\ MonthOf(text.toks[2]) # {}
       /\ YearOf(text.toks[3]) # {}
    THEN LET d == CHOOSE n \in DayOf(text.toks[1]) : TRUE
             mo == CHOOSE n \in MonthOf(text.toks[2]) : TRUE
             y == CHOOSE n \in YearOf(text.toks[3]) : TRUE
         IN  IF d <= DaysIn(mo, y)
             THEN [ok |-> TRUE, v |-> Timestamp(y, mo, d)]
             ELSE [ok |-> FALSE, v |-> NaT]
    ELSE [ok |-> FALSE, v |-> NaT]

\* pd.to_datetime(text, format='%d %b %Y')
Strptime(text) == StrptimeDBY(text, " ")

\* Timestamp.strftime('%Y-%m-%d')
StrftimeYMD(ts) == DateText("-", <<Str4(ts.y), Pad2(ts.mo), Pad2(ts.d)>>)

\* Timestamp.strftime('%d-%m-%Y')
Strftime(ts) == DateText("-", <<Pad2(ts.d), Pad2(ts.mo), Str4(ts.y)>>)

\* calendar order of two Timestamps
DateLess(a, b) ==
    \/ a.y < b.y
    \/ a.y = b.y /\ a.mo < b.mo
    \/ a.y = b.y /\ a.mo = b.mo /\ a.d < b.d

(***************************************************************************)
(* str.upper on the names of the model.                                    *)
(***************************************************************************)
Upper(s) ==
    CASE s = "gold" -> "GOLD"
      [] s = "futcom" -> "FUTCOM"
      [] s = "comdty" -> "COMDTY"
      [] OTHER -> s

(***************************************************************************)
(* Cells and raw rows.  A cell of a DataFrame built from ragged rows may   *)
(* be None: [none |-> TRUE].  A raw row is the sequence of the texts of    *)
(* its td elements.                                                        *)
(***************************************************************************)
Cell(t) == [none |-> FALSE, t |-> t]
NoneText == [none |-> TRUE, t |-> <<>>]    \* None in a column of numeric or date texts
NoneName == [none |-> TRUE, t |-> ""]      \* None in a column of names

\* the header cells of table tblDatewiseDetail that the transform reads
Headers == <<"Date", "Instrument", "Segment", "Commodity", "Total Value (Lacs)">>

D0 == DateText(" ", <<"30", "Sep", "2025">>)
D1 == DateText(" ", <<"01", "Oct", "2025">>)
D2 == DateText(" ", <<"02", "Oct", "2025">>)
BadDate == DateText("/", <<"01", "10", "2025">>)

\* the raw rows the site may serve
RowDomain ==
    { <<D1, "FUTCOM", "comdty", "GOLD", <<"1", "0", "0">> >>,
      <<D1, "FUTCOM", "comdty", "SILVER", <<"5", "0">> >>,
      <<D2, "FUTCOM", "comdty", "GOLD", <<"3", "0">> >>,
      <<D0, "OPTFUT", "comdty", "gold", <<"1", ",", "2", "3", "4", ".", "5", "0">> >>,
      <<D1, "futcom", "comdty", "GOLD", <<"7">> >>,
      <<D1, "FUTCOM", "comdty", "NEWCOM", <<"5">> >>,
      <<D2, "FUTCOM", "comdty", "GOLD", <<"-">> >>,
      <<BadDate, "FUTCOM", "comdty", "GOLD", <<"1">> >>,
      <<D2, "OPTFUT", "comdty", "SILVER">>,
      <<D1, "FUTCOM", "comdty", "GOLD", <<"1">>, <<"x">> >> }

(***************************************************************************)
(* pd.DataFrame(all_rows_data, columns=headers), lines 92-95.  A frame is  *)
(* [none, vdtype, ddtype, rows]: none says the reference is None; vdtype   *)
(* and ddtype are the dtypes of columns 'Total Value (Lacs)' and 'Date';   *)
(* rows are records by column name.                                        *)
(***************************************************************************)
NoFrame == [none |-> TRUE, vdtype |-> "object", ddtype |-> "object", rows |-> <<>>]

CellAt(r, j, nonecell) == IF j <= Len(r) THEN Cell(r[j]) ELSE nonecell

\* rows shorter than the longest one are padded with None
FrameRow(r) ==
    [Date |-> CellAt(r, 1, NoneText), Instrument |-> CellAt(r, 2, NoneName),
     Segment |-> CellAt(r, 3, NoneName), Commodity |-> CellAt(r, 4, NoneName),
     Value |-> CellAt(r, 5, NoneText)]

MaxRowLen(rows) == CHOOSE n \in {Len(rows[i]) : i \in DOMAIN rows} :
                       \A i \in DOMAIN rows : Len(rows[i]) <= n

\* ok is FALSE where the constructor raises ValueError: the longest row has not as
\* many fields as there are headers
DataFrame(rows, headers) ==
    IF MaxRowLen(rows) = Len(headers)
    THEN [ok |-> TRUE,
          v |-> [none |-> FALSE, vdtype |-> "object", ddtype |-> "object",
                 rows |-> [i \in DOMAIN rows |-> FrameRow(rows[i])]]]
    ELSE [ok |-> FALSE, v |-> NoFrame]

(***************************************************************************)
(* transform_data_to_wide_format, lines 97-182.                            *)
(***************************************************************************)
FUTCOM_COMMODITIES ==
    <<"ALUMINIUM", "ALUMINI", "CARDAMOM", "COPPER", "COTTON", "COTTONCNDY", "COTTONOIL",
      "CRUDEOIL", "CRUDEOILM", "GOLD", "GOLDM", "GOLDGUINEA", "GOLDPETAL", "KAPAS",
      "LEAD", "LEADMINI", "MENTHAOIL", "NATURALGAS", "NICKEL", "SILVER", "SILVERM",
      "SILVERMIC", "STEELREBAR", "ZINC", "ZINCMINI">>
OPTFUT_COMMODITIES ==
    <<"COPPER", "CRUDEOIL", "GOLD", "GOLDM", "NATURALGAS", "NICKEL", "SILVER", "SILVERM",
      "ZINC">>

FUTCOM_COLS == [i \in DOMAIN FUTCOM_COMMODITIES |-> "FUTCOM_" \o FUTCOM_COMMODITIES[i]]
OPTFUT_COLS == [i \in DOMAIN OPTFUT_COMMODITIES |-> "OPTFUT_" \o OPTFUT_COMMODITIES[i]]
INSTRUMENT_COLS == <<"FUTCOM LKH", "FUTIDX LKH", "OPTFUT LKH">>

final_column_order ==
    <<"Date", "Year", "FUTCOM LKH", "FUTIDX LKH", "OPTFUT LKH">> \o FUTCOM_COLS
        \o <<"FUTCOM_Checksum">> \o OPTFUT_COLS
        \o <<"OPTFUT_Checksum", "FUTCOM_Cr", "FUTIDX_Cr", "OPTFUT_Cr",
             "Total_Value_Lakhs", "Total_Value_Cr">>

\* line 105: .str.replace(',', '').astype(float) on one cell; None becomes NaN
ValueOf(cell) ==
    IF cell.none THEN [ok |-> TRUE, v |-> NaN] ELSE ParseFloat(SelectSeq2(cell.t, ","))

\* line 108: pd.to_datetime(.., format='%d %b %Y') on one cell; None and the empty
\* text become NaT
DateOf(cell) ==
    IF cell.none \/ cell.t.toks = <<>> THEN [ok |-> TRUE, v |-> NaT] ELSE Strptime(cell.t)

\* lines 111-112: .str.upper() on one cell
UpperCell(cell) == IF cell.none THEN cell ELSE Cell(Upper(cell.t))

RECURSIVE Unique(_)
\* Series.unique(): the distinct values in order of first appearance
Unique(s) ==
    IF s = <<>> THEN <<>>
    ELSE LET u == Unique(SubSeq(s, 1, Len(s) - 1))
         IN  IF s[Len(s)] \in Range(u) THEN u ELSE Append(u, s[Len(s)])

\* one step of a sum that skips NaN
AddSkipNa(v, acc) == IF v.k = "nan" THEN acc ELSE FAdd(acc, v)

RECURSIVE SumOver(_, _)
\* the sum of column 'Total Value (Lacs)' over the rows S, NaN skipped
SumOver(rows, S) ==
    IF S = {} THEN Zero
    ELSE LET i == CHOOSE i \in S : \A j \in S : i >= j
         IN  AddSkipNa(rows[i].Value, SumOver(rows, S \ {i}))

\* groupby(['Date', key]).sum().unstack(fill_value=0) and pivot_table(index='Date',
\* columns=key, aggfunc='sum', fill_value=0), name[i] being the renamed column of
\* row i: over the rows S, one line per date and one column per key that occur
Pivot(rows, S, name) ==
    LET index == {rows[i].Date : i \in S}
        columns == {name[i] : i \in S}
    IN  [index |-> index, columns |-> columns,
         at |-> [d \in index |-> [c \in columns |->
                    SumOver(rows, {i \in S : rows[i].Date = d /\ name[i] = c})]]]

\* pd.merge(left, right, on='Date', how='left'): left's lines in left's order; a
\* date right does not hold gets NaN in right's columns
MergeLeft(left, right) ==
    [index |-> left.index, columns |-> left.columns \cup right.columns,
     at |-> [d \in Range(left.index) |-> [c \in left.columns \cup right.columns |->
                IF c \in left.columns THEN left.at[d][c]
                ELSE IF d \in right.index THEN right.at[d][c]
                ELSE NaN]]]

\* final_df[col] = val, val[d] being the value on the line of date d
WithColumn(fd, col, val) ==
    [index |-> fd.index, columns |-> fd.columns \cup {col},
     at |-> [d \in Range(fd.index) |-> [c \in fd.columns \cup {col} |->
                IF c = col THEN val[d] ELSE fd.at[d][c]]]]

\* the lines of a frame, by date
Lines(fd) == Range(fd.index)

RECURSIVE EnsureColumns(_, _)
\* lines 147-149: a column of the universe the frame lacks is added, filled with 0
EnsureColumns(fd, cols) ==
    IF cols = <<>> THEN fd
    ELSE LET c == Head(cols)
             next == IF c \notin fd.columns THEN WithColumn(fd, c, [d \in Lines(fd) |-> Zero])
                     ELSE fd
         IN  EnsureColumns(next, Tail(cols))

RECURSIVE SumAxis1(_, _)
\* final_df[cols].sum(axis=1) on one line: NaN skipped
SumAxis1(row, cols) ==
    IF cols = <<>> THEN Zero
    ELSE AddSkipNa(row[cols[Len(cols)]], SumAxis1(row, SubSeq(cols, 1, Len(cols) - 1)))

\* .dt.year of a Timestamp
YearCell(ts) == IF ts.nat THEN NaN ELSE DecNorm(ts.y, 0)

\* .dt.strftime('%d-%m-%Y') of a Timestamp
DateCell(ts) ==
    IF ts.nat THEN [nan |-> TRUE, text |-> DateText("", <<>>)]
    ELSE [nan |-> FALSE, text |-> Strftime(ts)]

\* lines 115-116: one line per distinct date, with its year
BaseFrame(dates) ==
    [index |-> dates, columns |-> {"Date", "Year"},
     at |-> [d \in Range(dates) |-> [c \in {"Date", "Year"} |-> YearCell(d)]]]

\* lines 119, 126-127, 134-135: the rows each aggregation takes
InstrumentRows(rows) ==
    {i \in DOMAIN rows : ~rows[i].Date.nat /\ ~rows[i].Instrument.none}
CommodityRows(rows, instrument) ==
    {i \in DOMAIN rows : /\ ~rows[i].Date.nat
                         /\ ~rows[i].Instrument.none
                         /\ rows[i].Instrument.t = instrument
                         /\ ~rows[i].Commodity.none}

RECURSIVE SetToSeq(_)
SetToSeq(S) ==
    IF S = {} THEN <<>>
    ELSE LET x == CHOOSE x \in S : TRUE IN <<x>> \o SetToSeq(S \ {x})

\* SelectColumns without line 177: the declared columns first, then every other
\* column the merges brought
SelectColumns_KeepAll(fd) ==
    LET declared == SelectSeq(final_column_order, LAMBDA c : c \in fd.columns)
    IN  declared \o SetToSeq(fd.columns \ Range(declared))

\* lines 175-177: the declared columns the frame holds, in the declared order
SelectColumns(fd) == SelectSeq(final_column_order, LAMBDA c : c \in fd.columns)

\* line 115 with the dates in reverse order of appearance
Dates_Reversed(rows) ==
    LET u == Unique([i \in DOMAIN rows |-> rows[i].Date])
    IN  [i \in DOMAIN u |-> u[Len(u) + 1 - i]]

\* line 115: df['Date'].unique()
Dates(rows) == Unique([i \in DOMAIN rows |-> rows[i].Date])

\* lines 152-153 with NaN not skipped: a missing cell makes the checksum NaN
Checksum_PropagateNa(row, cols) ==
    IF \E i \in DOMAIN cols : row[cols[i]].k = "nan" THEN NaN ELSE SumAxis1(row, cols)

\* lines 152-153: final_df[cols].sum(axis=1) on one line
Checksum(row, cols) == SumAxis1(row, cols)

\* lines 152-153: final_df[col] = final_df[cols].sum(axis=1)
AddChecksum(fd, col, cols) ==
    WithColumn(fd, col, [d \in Lines(fd) |-> Checksum(fd.at[d], cols)])

\* lines 156-158 and 162: final_df[col] = final_df[src] / 100
AddCr(fd, col, src) ==
    WithColumn(fd, col, [d \in Lines(fd) |-> FDiv100(fd.at[d][src])])

\* line 161: Total_Value_Lakhs = FUTCOM LKH + FUTIDX LKH + OPTFUT LKH
AddTotal(fd) ==
    WithColumn(fd, "Total_Value_Lakhs",
               [d \in Lines(fd) |->
                   FAdd(FAdd(fd.at[d]["FUTCOM LKH"], fd.at[d]["FUTIDX LKH"]),
                        fd.at[d]["OPTFUT LKH"])])

\* lines 114-177 on the pre-processed rows: final_df before the date is formatted
Assemble(rows) ==
    LET dates == Dates(rows)
        instrument_totals ==
            Pivot(rows, InstrumentRows(rows),
                  [i \in InstrumentRows(rows) |-> rows[i].Instrument.t \o " LKH"])
        futcom_pivot ==
            Pivot(rows, CommodityRows(rows, "FUTCOM"),
                  [i \in CommodityRows(rows, "FUTCOM") |-> "FUTCOM_" \o rows[i].Commodity.t])
        optfut_pivot ==
            Pivot(rows, CommodityRows(rows, "OPTFUT"),
                  [i \in CommodityRows(rows, "OPTFUT") |-> "OPTFUT_" \o rows[i].Commodity.t])
        f1 == MergeLeft(BaseFrame(dates), instrument_totals)
        f2 == MergeLeft(f1, futcom_pivot)
        f3 == MergeLeft(f2, optfut_pivot)
        f4 == EnsureColumns(f3, FUTCOM_COLS \o OPTFUT_COLS \o INSTRUMENT_COLS)
        f5 == AddChecksum(f4, "FUTCOM_Checksum", FUTCOM_COLS)
        f6 == AddChecksum(f5, "OPTFUT_Checksum", OPTFUT_COLS)
        f7 == AddCr(f6, "FUTCOM_Cr", "FUTCOM LKH")
        f8 == AddCr(f7, "FUTIDX_Cr", "FUTIDX LKH")
        f9 == AddCr(f8, "OPTFUT_Cr", "OPTFUT LKH")
        f10 == AddTotal(f9)
        f11 == AddCr(f10, "Total_Value_Cr", "Total_Value_Lakhs")
        existing == SelectColumns(f11)
    IN  [columns |-> existing,
         rows |-> [i \in DOMAIN dates |->
                     [Date |-> DateCell(dates[i]),
                      num |-> [c \in Range(existing) \ {"Date"} |-> f11.at[dates[i]][c]]]]]

NoWide == [none |-> TRUE, columns |-> <<>>, rows |-> <<>>]

\* The whole call on frame df: [exc, df, wide], df being the frame after the call
\* (the columns are assigned in place) and wide the returned table.
transform_data_to_wide_format(df) ==
    LET values == [i \in DOMAIN df.rows |-> ValueOf(df.rows[i].Value)]
        df1 == [df EXCEPT !.vdtype = "float64",
                          !.rows = [i \in DOMAIN df.rows |->
                                       [df.rows[i] EXCEPT !.Value = values[i].v]]]
        dates == [i \in DOMAIN df.rows |-> DateOf(df.rows[i].Date)]
        df2 == [df1 EXCEPT !.ddtype = "datetime64",
                           !.rows = [i \in DOMAIN df.rows |->
                                        [df1.rows[i] EXCEPT !.Date = dates[i].v]]]
        df3 == [df2 EXCEPT !.rows = [i \in DOMAIN df.rows |->
                                        [df2.rows[i] EXCEPT
                                            !.Commodity = UpperCell(@),
                                            !.Segment = UpperCell(@)]]]
    IN  IF df.vdtype # "object"
        THEN \* line 105: the .str accessor of a float64 column
             [exc |-> "AttributeError", df |-> df, wide |-> NoWide]
        ELSE IF \E i \in DOMAIN df.rows : ~values[i].ok
        THEN [exc |-> "ValueError", df |-> df, wide |-> NoWide]
        ELSE IF \E i \in DOMAIN df.rows : ~dates[i].ok
        THEN [exc |-> "ValueError", df |-> df1, wide |-> NoWide]
        ELSE [exc |-> "none", df |-> df3,
              wide |-> [none |-> FALSE] @@ Assemble(df3.rows)]

(***************************************************************************)
(* The MCX program: scrape_mcx_data (lines 23-95) and __main__ (lines      *)
(* 185-202).  pc is "start", "rows", "pager", "return", "main", "done" or  *)
(* "raised" (an exception left the program).                               *)
(***************************************************************************)
Min(a, b) == IF a <= b THEN a ELSE b

\* the text of pagerDetailsCount1
NumPages(s) == IF s = <<>> THEN 1 ELSE (Len(s) + PageSize - 1) \div PageSize

\* the tr elements of the table's body while page p is shown
PageRows(s, p) == SubSeq(s, (p - 1) * PageSize + 1, Min(p * PageSize, Len(s)))

InitMcx ==
    /\ pc = "start"
    /\ exc = "none"
    /\ text_value = NoText
    /\ ret = Zero
    /\ site \in SeqsUpTo(RowDomain, MaxRows)
    /\ page = 0
    /\ all_rows_data = <<>>
    /\ raw_df = NoFrame
    /\ given = NoFrame
    /\ wide_df = NoWide
    /\ calls = 0

\* lines 40-62: the search form is filled in and the result table shows its page 1
Configure ==
    /\ pc = "start"
    /\ pc' = "rows"
    /\ page' = 1
    /\ UNCHANGED <<exc, text_value, ret, site, all_rows_data, raw_df, given, wide_df, calls>>

\* lines 40-62, 85-90: a wait times out or a locator fails before the table shows
ConfigureFails ==
    /\ pc = "start"
    /\ pc' = "return"
    /\ UNCHANGED <<exc, text_value, ret, site, page, all_rows_data, raw_df, given,
                   wide_df, calls>>

\* lines 65-68: the rows of the page shown are collected
ReadRows ==
    /\ pc = "rows"
    /\ all_rows_data' = all_rows_data \o PageRows(site, page)
    /\ pc' = "pager"
    /\ UNCHANGED <<exc, text_value, ret, site, page, raw_df, given, wide_df, calls>>

\* lines 65-68, 87-90: reading a row raises (a stale element) after k rows were
\* collected; the outer handler prints and the function goes on to return
ReadRowsFails ==
    /\ pc = "rows"
    /\ \E k \in 0 .. Len(PageRows(site, page)) - 1 :
           all_rows_data' = all_rows_data \o SubSeq(PageRows(site, page), 1, k)
    /\ pc' = "return"
    /\ UNCHANGED <<exc, text_value, ret, site, page, raw_df, given, wide_df, calls>>

\* lines 70-80: on the last page the loop ends; otherwise the next page is shown
Pager ==
    /\ pc = "pager"
    /\ IF page >= NumPages(site)
       THEN pc' = "return" /\ page' = page
       ELSE pc' = "rows" /\ page' = page + 1
    /\ UNCHANGED <<exc, text_value, ret, site, all_rows_data, raw_df, given, wide_df, calls>>

\* lines 70-90: a pager element is missing or the wait for the next page times out
\* (line 82: break), or another exception reaches the outer handler
PagerFails ==
    /\ pc = "pager"
    /\ pc' = "return"
    /\ UNCHANGED <<exc, text_value, ret, site, page, all_rows_data, raw_df, given,
                   wide_df, calls>>

\* lines 92-95
Return ==
    /\ pc = "return"
    /\ IF all_rows_data = <<>>
       THEN raw_df' = NoFrame /\ pc' = "main" /\ exc' = exc
       ELSE LET f == DataFrame(all_rows_data, Headers)
            IN  IF f.ok
                THEN raw_df' = f.v /\ pc' = "main" /\ exc' = exc
                ELSE raw_df' = raw_df /\ pc' = "raised" /\ exc' = "ValueError"
    /\ UNCHANGED <<text_value, ret, site, page, all_rows_data, given, wide_df, calls>>

\* the effect of one call of transform_data_to_wide_format on raw_df
CallTransform ==
    LET t == transform_data_to_wide_format(raw_df)
    IN  /\ raw_df' = t.df
        /\ calls' = calls + 1
        /\ IF t.exc = "none"
           THEN wide_df' = t.wide /\ exc' = exc /\ pc' = "done"
           ELSE wide_df' = wide_df /\ exc' = t.exc /\ pc' = "raised"

\* lines 189-202
Main ==
    /\ pc = "main"
    /\ IF raw_df.none
       THEN /\ pc' = "done"
            /\ UNCHANGED <<exc, raw_df, given, wide_df, calls>>
       ELSE /\ given' = raw_df
            /\ CallTransform
    /\ UNCHANGED <<text_value, ret, site, page, all_rows_data>>

\* lines 97-182: a caller transforms the same table once more
CallAgain ==
    /\ pc = "done"
    /\ ~raw_df.none
    /\ calls < MaxCalls
    /\ CallTransform
    /\ UNCHANGED <<text_value, ret, site, page, all_rows_data, given>>

Next ==
    \/ Configure
    \/ ConfigureFails
    \/ ReadRows
    \/ ReadRowsFails
    \/ Pager
    \/ PagerFails
    \/ Return
    \/ Main
    \/ CallAgain

Init == InitMcx

Spec == Init /\ [][Next]_vars

\* the steps of scrape_mcx_data
scrape_mcx_data ==
    \/ Configure
    \/ ConfigureFails
    \/ ReadRows
    \/ ReadRowsFails
    \/ Pager
    \/ PagerFails
    \/ Return

\* the call keeps running while one of its steps is possible: one thread, and
\* every wait of lines 37-80 has a timeout
SpecFair == Spec /\ WF_vars(scrape_mcx_data)

(***************************************************************************)
(* clean_numeric_value, called on one text.                                *)
(***************************************************************************)
InitClean ==
    /\ pc = "clean_call"
    /\ exc = "none"
    /\ text_value \in CleanInputs
    /\ ret = Zero
    /\ site = <<>>
    /\ page = 0
    /\ all_rows_data = <<>>
    /\ raw_df = NoFrame
    /\ given = NoFrame
    /\ wide_df = NoWide
    /\ calls = 0

\* lines 10-19 of bse_premium.py
Clean ==
    /\ pc = "clean_call"
    /\ ret' = clean_numeric_value(text_value)
    /\ pc' = "clean_done"
    /\ UNCHANGED <<exc, text_value, site, page, all_rows_data, raw_df, given, wide_df, calls>>

NextClean == Clean

SpecClean == InitClean /\ [][NextClean]_vars

(***************************************************************************)
(* bse_premium.scrape_nse_daily_turnover, lines 161-228.  pc is            *)
(* "nse_start", "nse_rows", "nse_frame", "nse_done" (a table was           *)
(* returned), "nse_none" (None was returned) or "raised".  site holds the  *)
(* rows of the daily table, all_rows_data is scraped_data and wide_df the  *)
(* returned table.                                                         *)
(***************************************************************************)
NseHeaders == <<"Date", "IFC", "IFT", "SFC", "SFT", "IOC", "Index Options Premium Turnover",
                "SOC", "SOPT", "TC", "TT">>

N1 == DateText("-", <<"01", "Oct", "2025">>)
N2 == DateText("-", <<"03", "Oct", "2025">>)

\* a row of the daily table with its date and premium turnover cells
NseRow(date, value) ==
    <<date, <<>>, <<>>, <<>>, <<>>, <<>>, value, <<>>, <<>>, <<>>, <<>> >>

\* the raw rows the NSE page may serve: two well-formed ones, one whose date is
\* in another format, one of 7 cells and one of a single cell
NseRowDomain ==
    { NseRow(N1, <<"1", ",", "2", "3", "4", ".", "5", "0">>),
      NseRow(N2, <<"-">>),
      NseRow(D1, <<"5">>),
      SubSeq(NseRow(N1, <<"7">>), 1, 7),
      <<DateText(" ", <<"No", "Records">>)>> }

InitNse ==
    /\ pc = "nse_start"
    /\ exc = "none"
    /\ text_value = NoText
    /\ ret = Zero
    /\ site \in SeqsUpTo(NseRowDomain, MaxRows)
    /\ page = 0
    /\ all_rows_data = <<>>
    /\ raw_df = NoFrame
    /\ given = NoFrame
    /\ wide_df = NoWide
    /\ calls = 0

\* lines 178-212: the year and month links are clicked and the daily table shows
NseNavigate ==
    /\ pc = "nse_start"
    /\ pc' = "nse_rows"
    /\ UNCHANGED <<exc, text_value, ret, site, page, all_rows_data, raw_df, given,
                   wide_df, calls>>

\* lines 178-223: a wait or a click fails, or reading a row raises: the handler of
\* line 219 returns None
NseFails ==
    /\ pc \in {"nse_start", "nse_rows"}
    /\ pc' = "nse_none"
    /\ UNCHANGED <<exc, text_value, ret, site, page, all_rows_data, raw_df, given,
                   wide_df, calls>>

\* lines 214-217: the rows with as many cells as there are headers are kept
NseScrape ==
    /\ pc = "nse_rows"
    /\ all_rows_data' = SelectSeq(site, LAMBDA cols : Len(cols) = Len(NseHeaders))
    /\ pc' = "nse_frame"
    /\ UNCHANGED <<exc, text_value, ret, site, page, raw_df, given, wide_df, calls>>

\* lines 225-228 on scraped_data: [exc, table]
NseFrame(scraped_data) ==
    LET dates == [i \in DOMAIN scraped_data |->
                     IF scraped_data[i][1].toks = <<>> THEN [ok |-> TRUE, v |-> NaT]
                     ELSE StrptimeDBY(scraped_data[i][1], "-")]
        value == NseHeaders[7]
    IN  IF scraped_data = <<>>
        THEN \* line 226: pd.DataFrame([]) has no column 'Date'
             [exc |-> "KeyError", table |-> NoWide]
        ELSE IF \E i \in DOMAIN scraped_data : ~dates[i].ok
        THEN [exc |-> "ValueError", table |-> NoWide]
        ELSE [exc |-> "none",
              table |-> [none |-> FALSE, columns |-> <<"Date", value>>,
                         rows |-> [i \in DOMAIN scraped_data |->
                                     [Date |-> IF dates[i].v.nat
                                               THEN DateCell(NaT)
                                               ELSE [nan |-> FALSE,
                                                     text |-> StrftimeYMD(dates[i].v)],
                                      num |-> [c \in {value} |->
                                                 clean_numeric_value(
                                                     [str |-> TRUE,
                                                      chars |-> scraped_data[i][7]])]]]]]

\* lines 225-228
NseReturn ==
    /\ pc = "nse_frame"
    /\ LET f == NseFrame(all_rows_data)
       IN  IF f.exc = "none"
           THEN wide_df' = f.table /\ exc' = exc /\ pc' = "nse_done"
           ELSE wide_df' = wide_df /\ exc' = f.exc /\ pc' = "raised"
    /\ UNCHANGED <<text_value, ret, site, page, all_rows_data, raw_df, given, calls>>

NextNse ==
    \/ NseNavigate
    \/ NseFails
    \/ NseScrape
    \/ NseReturn

SpecNse == InitNse /\ [][NextNse]_vars

(***************************************************************************)
(* The claims.  They read the input as the caller gave it (given, set at   *)
(* the first call of the transform) and the table the transform returned.  *)
(***************************************************************************)
Transformed == ~wide_df.none

\* the input rows that carry a date, and what each row says
Dated == {i \in DOMAIN given.rows : ~given.rows[i].Date.none}
InTs(i) == Strptime(given.rows[i].Date.t).v
InKey(i) == Strftime(InTs(i))
InInstrument(i) == given.rows[i].Instrument
InCommodity(i) == given.rows[i].Commodity
InValue(i) ==
    IF given.rows[i].Value.none THEN Zero
    ELSE ParseFloat(SelectSeq2(given.rows[i].Value.t, ",")).v

RECURSIVE ObsSum(_)
ObsSum(S) ==
    IF S = {} THEN Zero
    ELSE LET i == CHOOSE i \in S : TRUE IN FAdd(InValue(i), ObsSum(S \ {i}))

\* the input rows of one output line, for an instrument, and for a commodity of it
ObsOf(line, instrument) ==
    {i \in Dated : InKey(i) = line.Date.text /\ InInstrument(i) = Cell(instrument)}
ObsOfCommodity(line, instrument, commodity) ==
    {i \in ObsOf(line, instrument) :
        ~InCommodity(i).none /\ Upper(InCommodity(i).t) = commodity}

\* the date an output line shows, read back from its '%d-%m-%Y' text
OutTs(line) ==
    Timestamp(CHOOSE y \in YearOf(line.Date.text.toks[3]) : TRUE,
              CHOOSE mo \in MonthNumOf(line.Date.text.toks[2]) : TRUE,
              CHOOSE d \in DayOf(line.Date.text.toks[1]) : TRUE)

\* C1 (as claimed): every cell of the column universe holds a number, and 0 where
\* the input has no observation for its date and instrument (and commodity).
C1_ZeroFill ==
    Transformed =>
        \A j \in DOMAIN wide_df.rows :
            LET line == wide_df.rows[j]
            IN  /\ \A instrument \in {"FUTCOM", "FUTIDX", "OPTFUT"} :
                       /\ IsFinite(line.num[instrument \o " LKH"])
                       /\ ObsOf(line, instrument) = {}
                              => line.num[instrument \o " LKH"] = Zero
                /\ \A c \in DOMAIN FUTCOM_COMMODITIES :
                       /\ IsFinite(line.num[FUTCOM_COLS[c]])
                       /\ ObsOfCommodity(line, "FUTCOM", FUTCOM_COMMODITIES[c]) = {}
                              => line.num[FUTCOM_COLS[c]] = Zero
                /\ \A c \in DOMAIN OPTFUT_COMMODITIES :
                       /\ IsFinite(line.num[OPTFUT_COLS[c]])
                       /\ ObsOfCommodity(line, "OPTFUT", OPTFUT_COMMODITIES[c]) = {}
                              => line.num[OPTFUT_COLS[c]] = Zero

\* every commodity the input has under the instrument is in the declared list
UniverseCovers(instrument, commodities) ==
    \A i \in DOMAIN given.rows :
        (InInstrument(i) = Cell(instrument) /\ ~InCommodity(i).none)
            => Upper(InCommodity(i).t) \in Range(commodities)

C3_FixedSchema ==
    Transformed =>
        /\ wide_df.columns = final_column_order
        /\ Len(wide_df.columns) = 46
        /\ \A j \in DOMAIN wide_df.rows :
               DOMAIN wide_df.rows[j].num = Range(final_column_order) \ {"Date"}

\* C3's case: the input holds an instrument and a commodity outside the universe,
\* and no OPTFUT row at all
C3_Witness ==
    /\ Transformed
    /\ \E i \in DOMAIN given.rows : InInstrument(i) = Cell("futcom")
    /\ \E i \in DOMAIN given.rows : InCommodity(i) = Cell("NEWCOM")
    /\ \A i \in DOMAIN given.rows : InInstrument(i) # Cell("OPTFUT")

\* C4 (as claimed): the returned lines are in ascending calendar-date order.
C4_Ascending ==
    Transformed =>
        \A j, k \in DOMAIN wide_df.rows :
            j < k => DateLess(OutTs(wide_df.rows[j]), OutTs(wide_df.rows[k]))

\* the first input row that carries the date of an output line
FirstRow(line) ==
    CHOOSE i \in Dated : InKey(i) = line.Date.text
                          /\ \A h \in Dated : InKey(h) = line.Date.text => i <= h

\* C4 (amended): one line per distinct date of the input, in the order in which
\* the dates first appear in the input; so the lines are in ascending date order
\* whenever the input's dates are.
C4_FirstAppearanceOrder ==
    Transformed =>
        /\ \A i \in Dated : \E j \in DOMAIN wide_df.rows : wide_df.rows[j].Date.text = InKey(i)
        /\ \A j \in DOMAIN wide_df.rows :
               \E i \in Dated : wide_df.rows[j].Date.text = InKey(i)
        /\ \A j, k \in DOMAIN wide_df.rows :
               j < k => /\ wide_df.rows[j].Date.text # wide_df.rows[k].Date.text
                        /\ FirstRow(wide_df.rows[j]) < FirstRow(wide_df.rows[k])
        /\ (\A h, i \in Dated : h < i => ~DateLess(InTs(i), InTs(h)))
               => \A j, k \in DOMAIN wide_df.rows :
                      j < k => DateLess(OutTs(wide_df.rows[j]), OutTs(wide_df.rows[k]))

\* C4's case: three dates, scraped latest first, returned in that order
C4_Witness ==
    /\ Transformed
    /\ Len(wide_df.rows) = 3
    /\ \A j, k \in DOMAIN wide_df.rows :
           j < k => DateLess(OutTs(wide_df.rows[k]), OutTs(wide_df.rows[j]))

\* C5 (as claimed): clean_numeric_value returns a finite number for every input:
\* 0 for an empty or dash text, 0 for a text that is no number, and "1,234.50"
\* gives 1234.5.
C5_FiniteTotal ==
    pc = "clean_done" =>
        /\ IsFinite(ret)
        /\ (text_value.str /\ Strip(text_value.chars) \in {<<>>, <<"-">>}) => ret = Zero
        /\ text_value.chars = <<"a", "b", "c">> => ret = Zero
        /\ text_value.chars = <<"1", ",", "2", "3", "4", ".", "5", "0">>
               => ret = DecNorm(12345, 1)

\* a value cell that is empty, a dash or otherwise no number
Unparseable(cell) == ~cell.none /\ ~ParseFloat(SelectSeq2(cell.t, ",")).ok
\* a date cell that does not match the format
BadDateCell(cell) == ~cell.none /\ ~Strptime(cell.t).ok

\* C6 (as claimed): a value cell that does not parse counts as 0; the batch is not
\* aborted and the other observations are aggregated.
C6_UnparseableValueAbsorbed ==
    ( /\ calls = 1
      /\ \E i \in DOMAIN given.rows : Unparseable(given.rows[i].Value)
      /\ \A i \in DOMAIN given.rows : ~BadDateCell(given.rows[i].Date) )
        => /\ exc = "none"
           /\ Transformed
           /\ \A i \in Dated : \E j \in DOMAIN wide_df.rows :
                  wide_df.rows[j].Date.text = InKey(i)

\* the collected rows whose field count is that of the header
RECURSIVE WellFormed(_)
WellFormed(rows) ==
    IF rows = <<>> THEN <<>>
    ELSE IF Len(Head(rows)) = Len(Headers) THEN <<Head(rows)>> \o WellFormed(Tail(rows))
    ELSE WellFormed(Tail(rows))

\* C7 (as claimed): a raw row whose field count differs from the header's is
\* discarded: the scrape does not fail, and the table it returns holds exactly the
\* well-formed rows.
C7_MalformedRowDropped ==
    /\ ~(pc = "raised" /\ calls = 0)
    /\ (pc = "main" /\ ~raw_df.none)
           => raw_df.rows = [i \in DOMAIN WellFormed(all_rows_data) |->
                                FrameRow(WellFormed(all_rows_data)[i])]

\* C8 (as claimed): a date cell that does not match the format fails its row
\* only: the caller still obtains the lines of all the other rows.
C8_BadDatePerRow ==
    ( /\ calls = 1
      /\ \E i \in DOMAIN given.rows : BadDateCell(given.rows[i].Date)
      /\ \A i \in DOMAIN given.rows : ~Unparseable(given.rows[i].Value) )
        => /\ Transformed
           /\ \A i \in Dated : ~BadDateCell(given.rows[i].Date)
                  => \E j \in DOMAIN wide_df.rows : wide_df.rows[j].Date.text = InKey(i)

\* C9 (as claimed), the NSE scraper: when the extraction went through and kept no
\* row, a table of zero rows is returned and nothing is raised.
C9_EmptyInputEmptyResult ==
    (pc \in {"nse_done", "raised"} /\ all_rows_data = <<>>)
        => /\ pc = "nse_done"
           /\ Transformed
           /\ wide_df.rows = <<>>

\* C9 (as claimed), the MCX program: when no row was extracted it ends with a
\* table of zero rows: it neither raises nor hands None to its caller.
C9_McxEmptyInputEmptyResult ==
    (pc \in {"main", "done", "raised"} /\ all_rows_data = <<>>)
        => /\ pc # "raised"
           /\ ~raw_df.none
           /\ pc = "done" => (Transformed /\ wide_df.rows = <<>>)

\* C10 (as claimed): the transform leaves the table it is given as it was, and a
\* second call on the same table succeeds with the same lines.
C10_NoMutationIdempotent ==
    Transformed =>
        /\ raw_df.vdtype = given.vdtype
        /\ raw_df.ddtype = given.ddtype
        /\ raw_df.rows = given.rows
        /\ calls = 2 => exc = "none"

\* the input rows of one output line whose instrument, upper-cased, is the given
\* one, and those of them whose commodity, upper-cased, is the given one
ObsOfAnyCase(line, instrument) ==
    {i \in Dated : /\ InKey(i) = line.Date.text
                   /\ ~InInstrument(i).none
                   /\ Upper(InInstrument(i).t) = instrument}
ObsOfCommodityAnyCase(line, instrument, commodity) ==
    {i \in ObsOfAnyCase(line, instrument) :
        ~InCommodity(i).none /\ Upper(InCommodity(i).t) = commodity}

\* every commodity the input has under the instrument, in any letter case, is in
\* the declared list
UniverseCoversAnyCase(instrument, commodities) ==
    \A i \in DOMAIN given.rows :
        (/\ ~InInstrument(i).none
         /\ Upper(InInstrument(i).t) = instrument
         /\ ~InCommodity(i).none)
            => Upper(InCommodity(i).t) \in Range(commodities)

\* C11 (as claimed): the rows of a date whose instrument is FUTCOM in any letter
\* case all count under FUTCOM: their sum is 'FUTCOM LKH', their sum per commodity
\* is the FUTCOM_<commodity> cell, and their sum is FUTCOM_Checksum when every
\* such commodity is in the declared list.
C11_CaseNormalizedKeys ==
    Transformed =>
        \A j \in DOMAIN wide_df.rows :
            LET line == wide_df.rows[j]
                obs == ObsOfAnyCase(line, "FUTCOM")
            IN  obs # {} =>
                    /\ line.num["FUTCOM LKH"] = ObsSum(obs)
                    /\ \A c \in DOMAIN FUTCOM_COMMODITIES :
                           ObsOfCommodityAnyCase(line, "FUTCOM", FUTCOM_COMMODITIES[c]) # {}
                               => line.num[FUTCOM_COLS[c]] =
                                      ObsSum(ObsOfCommodityAnyCase(line, "FUTCOM",
                                                                   FUTCOM_COMMODITIES[c]))
                    /\ UniverseCoversAnyCase("FUTCOM", FUTCOM_COMMODITIES)
                           => line.num["FUTCOM_Checksum"] = ObsSum(obs)

\* C11, the commodity half alone: among the rows whose instrument is exactly
\* 'OPTFUT' or 'FUTCOM', those whose commodity differs only in letter case fall
\* in the same commodity cell.
C11_CommodityCaseNormalized ==
    Transformed =>
        \A j \in DOMAIN wide_df.rows :
            LET line == wide_df.rows[j]
            IN  /\ \A c \in DOMAIN FUTCOM_COMMODITIES :
                       ObsOfCommodity(line, "FUTCOM", FUTCOM_COMMODITIES[c]) # {}
                           => line.num[FUTCOM_COLS[c]] =
                                  ObsSum(ObsOfCommodity(line, "FUTCOM", FUTCOM_COMMODITIES[c]))
                /\ \A c \in DOMAIN OPTFUT_COMMODITIES :
                       ObsOfCommodity(line, "OPTFUT", OPTFUT_COMMODITIES[c]) # {}
                           => line.num[OPTFUT_COLS[c]] =
                                  ObsSum(ObsOfCommodity(line, "OPTFUT", OPTFUT_COMMODITIES[c]))

\* C11's commodity case: a lower-case commodity was transformed under an exactly
\* spelled instrument
C11_CommodityCase ==
    /\ Transformed
    /\ \E i \in Dated : /\ InInstrument(i) = Cell("OPTFUT")
                        /\ InCommodity(i) = Cell("gold")

\* scrape_mcx_data has ended: it returned to __main__ or its exception left it
Scraped == pc \in {"main", "done", "raised"}

\* C12 (as claimed), the outcome: when scrape_mcx_data hands a table to its
\* caller, the rows collected are those of every page of the result table, in
\* order; otherwise it returned None or raised.
C12_CompleteOrExplicitFailure ==
    (pc = "main" /\ ~raw_df.none) => all_rows_data = site

\* C12, termination alone: every run of scrape_mcx_data ends.
C12_Terminates == <>Scraped

\* C12, the pagination alone: the page shown never goes back and never passes the
\* last page, so each page is read at most once.
C12_EachPageOnce ==
    [][/\ page' >= page
       /\ page' <= NumPages(site)
       /\ (pc = "rows" /\ pc' = "rows") => page' = page]_vars
====
